---- MODULE Spec2Model ----
(***************************************************************************)
(* A model of PrefAgent: the DataHandler that reads the four input files   *)
(* and compiles DSL formulas into clause lists, the Object generator, the  *)
(* PenaltyLogic and QualitativeChoiceLogic rules, and the PreferenceProblem*)
(* that computes feasibility, scores and optimal sets.                     *)
(*                                                                         *)
(* A text is a sequence of words; the separators " AND ", " OR ", " BT ",  *)
(* " IF ", ", " and ": " are the words "AND", "OR", "BT", "IF", "," and    *)
(* ":" of that sequence, and the empty string is the empty sequence.       *)
(***************************************************************************)
EXTENDS Integers, Sequences, FiniteSets, TLC

\* ------------------------------------------------------------------ bounds
MaxAttrs == 2        \* attribute lines in the attributes file
MaxLits == 2         \* OR-parts of one AND-part of a generated formula
MaxClauses == 2      \* AND-parts of a generated formula
MaxHardLines == 2    \* lines of the hard constraints file
MaxPenaltyRules == 2 \* lines of the penalty logic file
MaxQualRules == 2    \* lines of the qualitative choice logic file

VARIABLES
    pc,                 \* the step the driver (main.py) is at
    error,              \* "none", or the exception that ended the program at pc
    attributes,         \* DataHandler.attributes
    values,             \* DataHandler.values
    constraints,        \* DataHandler.constraints = PreferenceProblem.hard_constraints
    objects,            \* DataHandler.objects = PreferenceProblem.objects
    penalty_objects,    \* DataHandler.penalty_objects = PreferenceProblem.penalty_logics
    qualitative_objects,\* DataHandler.qualitative_objects = PreferenceProblem.qualitative_logics
    feasible_objects,   \* PreferenceProblem.feasible_objects (positions in objects)
    object_qualitative_values, \* PreferenceProblem.object_qualitative_values (in key order)
    penalty_logic_table,       \* rows of PreferenceProblem.penalty_logic_table
    qualitative_choice_table,  \* rows of PreferenceProblem.qualitative_choice_table
    directory,          \* the four input files the user named
    line,               \* the formula text handed to make_constraints
    result,             \* what make_constraints returned for line
    output              \* the last report printed

vars == <<pc, error, attributes, values, constraints, objects, penalty_objects,
          qualitative_objects, feasible_objects, object_qualitative_values,
          penalty_logic_table, qualitative_choice_table, directory, line, result, output>>

\* ------------------------------------------------------------- text helpers
\* The value-labels of the attributes file, line by line: first the label
\* registered with bit 1, then the label registered with bit 0.
LabelTable == << <<"t1", "f1">>, <<"t2", "f2">>, <<"t3", "f3">>, <<"t4", "f4">> >>

Max(a, b) == IF a > b THEN a ELSE b

Abs(x) == IF x < 0 THEN -x ELSE x

InRange(seq) == {seq[i] : i \in DOMAIN seq}

RECURSIVE Pow2(_)
Pow2(n) == IF n = 0 THEN 1 ELSE 2 * Pow2(n - 1)

\* str.split(sep) on a text whose separator is the word sep
RECURSIVE Split(_, _)
Split(s, sep) ==
    IF \E i \in 1..Len(s) : s[i] = sep
    THEN LET i == CHOOSE k \in 1..Len(s) : s[k] = sep /\ \A j \in 1..(k - 1) : s[j] # sep
         IN  <<SubSeq(s, 1, i - 1)>> \o Split(SubSeq(s, i + 1, Len(s)), sep)
    ELSE <<s>>

\* literal.split(" "): the words of a literal; the empty text gives ['']
Words(literal) == IF literal = <<>> THEN <<"">> ELSE literal

\* ------------------------------------------------------------- DataHandler
\* values after read_attributes registered the given label pairs in order
RECURSIVE RegisterValues(_, _)
RegisterValues(attrs, i) ==
    IF i = 0 THEN <<>>
    ELSE LET prev == RegisterValues(attrs, i - 1)
             one  == [l \in DOMAIN prev \cup {attrs[i][1]} |->
                         IF l = attrs[i][1] THEN 1 ELSE prev[l]]
         IN  [l \in DOMAIN one \cup {attrs[i][2]} |->
                 IF l = attrs[i][2] THEN 0 ELSE one[l]]

return_integer(value) ==
    IF \E index \in 1..Len(attributes) : value \in InRange(attributes[index])
    THEN CHOOSE index \in 1..Len(attributes) :
            /\ value \in InRange(attributes[index])
            /\ \A j \in 1..(index - 1) : value \notin InRange(attributes[j])
    ELSE 0

\* The word of a literal that names the label: attribute_value[1] of a
\* two-word literal, attribute_value[0] otherwise.
LiteralValue(literal) ==
    LET attribute_value == Words(literal)
    IN  IF Len(attribute_value) = 2 THEN attribute_value[2] ELSE attribute_value[1]

\* self.values[value] raises KeyError for a value that was never registered
LiteralKnown(literal) == LiteralValue(literal) \in DOMAIN values

\* make_constraints whose bare-label branch tests the bit as the negated
\* branch does
LiteralInteger_samebranch(literal) ==
    LET value == LiteralValue(literal)
        integer == return_integer(value)
        bit_value == values[value]
    IN  IF bit_value = 1 THEN -integer ELSE integer

\* The signed integer of one literal of make_constraints (the one-literal and
\* the many-literal branch of the code compute it the same way).
LiteralInteger(literal) ==
    LET value == LiteralValue(literal)
        integer == return_integer(value)
        bit_value == values[value]
    IN  IF Len(Words(literal)) = 2
        THEN (IF bit_value = 1 THEN -integer ELSE integer)
        ELSE (IF bit_value = 0 THEN -integer ELSE integer)

\* One pass of the loop over the AND-parts.  st.clause is the one list
\* object `clause`; an entry of st.clause_list is either that object
\* (shared) or a fresh one-literal list.
ClauseStep(a_clause, st) ==
    LET literals == Split(a_clause, "OR")
    IN  IF \E j \in 1..Len(literals) : ~LiteralKnown(literals[j])
        THEN [st EXCEPT !.err = "KeyError"]
        ELSE IF Len(literals) = 1
             THEN [err |-> "none", clause |-> <<>>,
                   clause_list |-> Append(st.clause_list,
                                     [shared |-> FALSE,
                                      lits |-> <<LiteralInteger(literals[1])>>])]
             ELSE [err |-> "none",
                   clause |-> [j \in 1..Len(literals) |-> LiteralInteger(literals[j])],
                   clause_list |-> Append(st.clause_list, [shared |-> TRUE, lits |-> <<>>])]

RECURSIVE ClauseLoop(_, _, _)
ClauseLoop(clauses, i, st) ==
    IF i > Len(clauses) \/ st.err # "none" THEN st
    ELSE ClauseLoop(clauses, i + 1, ClauseStep(clauses[i], st))

make_constraints(text) ==
    LET clauses == Split(text, "AND")
        st == ClauseLoop(clauses, 1, [err |-> "none", clause |-> <<>>, clause_list |-> <<>>])
    IN  [err |-> st.err,
         clause_list |-> IF st.err # "none" THEN <<>>
                         ELSE [k \in 1..Len(st.clause_list) |->
                                  IF st.clause_list[k].shared THEN st.clause
                                  ELSE st.clause_list[k].lits]]

\* read_attributes: the label lists of the lines, in order; "IndexError" when
\* a line has no ": " part or fewer than two labels after it.
AttributeValues(attr_line) ==
    LET current_line == Split(attr_line, ":")
        pieces == Split(current_line[2], ",")
    IN  [k \in 1..Len(pieces) |-> Words(pieces[k])[1]]

AttributeLineOk(attr_line) ==
    /\ Len(Split(attr_line, ":")) >= 2
    /\ Len(Split(Split(attr_line, ":")[2], ",")) >= 2

read_attributes(file) ==
    IF \E i \in 1..Len(file) : ~AttributeLineOk(file[i])
    THEN [err |-> "IndexError", attributes |-> <<>>]
    ELSE [err |-> "none", attributes |-> [i \in 1..Len(file) |-> AttributeValues(file[i])]]

\* add_base_constraints: one clause [-index, index] per attribute
BaseConstraints == [index \in 1..Len(attributes) |-> <<-index, index>>]

\* read_constraints: the clauses of every line, in order, then the base clauses
RECURSIVE CompileLines(_, _)
CompileLines(file, i) ==
    IF i = 0 THEN [err |-> "none", clause_list |-> <<>>]
    ELSE LET prev == CompileLines(file, i - 1)
             cur  == make_constraints(file[i])
         IN  IF prev.err # "none" THEN prev
             ELSE IF cur.err # "none" THEN [err |-> cur.err, clause_list |-> <<>>]
             ELSE [err |-> "none", clause_list |-> prev.clause_list \o cur.clause_list]

read_constraints(file) ==
    LET compiled == CompileLines(file, Len(file))
    IN  IF compiled.err # "none" THEN compiled
        ELSE [err |-> "none", clause_list |-> compiled.clause_list \o BaseConstraints]

\* format(integer_value, 'b'): the binary digits, most significant first
RECURSIVE Binary(_)
Binary(k) == IF k < 2 THEN <<k>> ELSE Binary(k \div 2) \o <<k % 2>>

\* encode_string: format(integer_value, f'0{num_of_bits}b') pads with zeros
\* up to num_of_bits digits and never cuts digits off
encode_string(integer_value, num_of_bits) ==
    LET digits == Binary(integer_value)
    IN  IF Len(digits) >= num_of_bits THEN digits
        ELSE [k \in 1..(num_of_bits - Len(digits)) |-> 0] \o digits

\* The Object make_objects builds for integer_value (its name o<integer_value>
\* is kept as the number).
MakeObject(integer_value) ==
    LET encoded_string == encode_string(integer_value, Len(attributes))
    IN  [name |-> integer_value,
         encoding |-> encoded_string,
         values |-> [index \in 1..Len(encoded_string) |->
                        IF encoded_string[index] = 0 THEN attributes[index][2]
                        ELSE attributes[index][1]],
         integers |-> [index \in 1..Len(encoded_string) |->
                        IF encoded_string[index] = 0 THEN -index ELSE index],
         total_penalty |-> 0]

\* make_objects: self.attributes[index] raises IndexError as soon as an
\* encoded string has more digits than there are attributes
make_objects ==
    LET num_of_sets == Pow2(Len(attributes))
    IN  IF \E k \in 0..(num_of_sets - 1) :
              Len(encode_string(k, Len(attributes))) > Len(attributes)
        THEN [err |-> "IndexError", objects |-> <<>>]
        ELSE [err |-> "none", objects |-> [k \in 1..num_of_sets |-> MakeObject(k - 1)]]

\* read_penalty_logic: one PenaltyLogic per line "formula, penalty"
PenaltyRule(rule_line) ==
    LET line_elements == Split(rule_line, ",")
    IN  [name |-> line_elements[1],
         constraint |-> make_constraints(line_elements[1]).clause_list,
         penalty |-> Words(line_elements[2])[1]]

PenaltyLineError(rule_line) ==
    LET line_elements == Split(rule_line, ",")
    IN  IF Len(line_elements) < 2 THEN "IndexError"
        ELSE make_constraints(line_elements[1]).err

FirstError(errs) ==
    IF \E i \in 1..Len(errs) : errs[i] # "none"
    THEN errs[CHOOSE i \in 1..Len(errs) :
                 errs[i] # "none" /\ \A j \in 1..(i - 1) : errs[j] = "none"]
    ELSE "none"

read_penalty_logic(file) ==
    LET err == FirstError([i \in 1..Len(file) |-> PenaltyLineError(file[i])])
    IN  [err |-> err,
         rules |-> IF err # "none" THEN <<>>
                   ELSE [i \in 1..Len(file) |-> PenaltyRule(file[i])]]

\* read_qualitative_logic: re.split(' IF | IF', line), values[1] read before
\* anything else, an empty condition popped, the condition compiled only
\* when two parts are left.  condition is <<>> for None, <<formula>> otherwise.
IfParts(rule_line) ==
    LET parts == Split(rule_line, "IF")
    IN  IF parts[2] = <<>>
        THEN <<parts[1]>> \o SubSeq(parts, 3, Len(parts))
        ELSE parts

Tiers(rule_line) == Split(Split(rule_line, "IF")[1], "BT")

QualitativeLineError(rule_line) ==
    IF Len(Split(rule_line, "IF")) < 2 THEN "IndexError"
    ELSE LET parts == IfParts(rule_line)
             cond  == IF Len(parts) = 2 THEN make_constraints(parts[2]).err ELSE "none"
             tiers == Tiers(rule_line)
         IN  IF cond # "none" THEN cond
             ELSE FirstError([t \in 1..Len(tiers) |-> make_constraints(tiers[t]).err])

QualitativeRule(rule_line) ==
    LET parts == IfParts(rule_line)
        tiers == Tiers(rule_line)
    IN  [name |-> rule_line,
         constraints |-> [t \in 1..Len(tiers) |-> make_constraints(tiers[t]).clause_list],
         condition |-> IF Len(parts) = 2
                       THEN <<make_constraints(parts[2]).clause_list>>
                       ELSE <<>>]

read_qualitative_logic(file) ==
    LET err == FirstError([i \in 1..Len(file) |-> QualitativeLineError(file[i])])
    IN  [err |-> err,
         rules |-> IF err # "none" THEN <<>>
                   ELSE [i \in 1..Len(file) |-> QualitativeRule(file[i])]]

\* ------------------------------------------------------------- SAT solver
\* CNF(from_clauses=...).nv: the largest variable of the formula
RECURSIVE MaxVar(_, _)
MaxVar(clause, j) == IF j = 0 THEN 0 ELSE Max(Abs(clause[j]), MaxVar(clause, j - 1))

RECURSIVE NumVars(_, _)
NumVars(formula, k) ==
    IF k = 0 THEN 0
    ELSE Max(MaxVar(formula[k], Len(formula[k])), NumVars(formula, k - 1))

\* an assignment m makes every clause true (an empty clause is never true)
Satisfies(m, formula) ==
    \A k \in 1..Len(formula) :
        \E j \in 1..Len(formula[k]) :
            LET lit == formula[k][j]
            IN  (lit > 0 /\ m[lit]) \/ (lit < 0 /\ ~m[-lit])

\* Solver.solve()
solve(formula) ==
    \E m \in [1..NumVars(formula, Len(formula)) -> BOOLEAN] : Satisfies(m, formula)

\* Solver.enum_models(): every model as the list of its signed variables
enum_models(formula) ==
    LET nv == NumVars(formula, Len(formula))
    IN  {[v \in 1..nv |-> IF m[v] THEN v ELSE -v] :
            m \in {a \in [1..nv -> BOOLEAN] : Satisfies(a, formula)}}

\* ------------------------------------------------------------------ Object
return_test_integers(obj) == [i \in 1..Len(obj.integers) |-> <<obj.integers[i]>>]

\* int(penalty) of add_penalty, for the penalty texts of the rule lines
IntOf(penalty) ==
    CASE penalty = "0" -> 0
      [] penalty = "1" -> 1
      [] penalty = "2" -> 2
      [] penalty = "3" -> 3
      [] penalty = "4" -> 4
      [] penalty = "5" -> 5

\* ------------------------------------------------------------ PenaltyLogic
\* PenaltyLogic.test: TRUE when the rule's clauses with the object's
\* integers as unit clauses are satisfiable
PenaltySolved(rule, obj) == solve(rule.constraint \o return_test_integers(obj))

\* the value test returns: 0, or self.penalty as it was read
PenaltyTest(rule, obj) == IF PenaltySolved(rule, obj) THEN 0 ELSE rule.penalty

\* PenaltyLogic.test that adds the configured penalty whatever the solver said
PenaltyAdded_always(rule, obj) == IntOf(rule.penalty)

\* the amount test adds to the object's total_penalty
PenaltyAdded(rule, obj) == IF PenaltySolved(rule, obj) THEN 0 ELSE IntOf(rule.penalty)

\* PenaltyLogic.test that appends the object's integers to self.constraint
\* itself
ConstraintAfterTest_nocopy(rule, obj) == rule.constraint \o return_test_integers(obj)

\* self.constraint after test: test_formula is a copy, so the integers
\* appended to it do not reach the rule
ConstraintAfterTest(rule, obj) == rule.constraint

\* the rule after apply_penalty_logic tested it on the first r feasible objects
RECURSIVE PenaltyRuleAfter(_, _, _)
PenaltyRuleAfter(rule, feasible, r) ==
    IF r = 0 THEN rule
    ELSE LET tested == PenaltyRuleAfter(rule, feasible, r - 1)
         IN  [tested EXCEPT !.constraint = ConstraintAfterTest(tested, objects[feasible[r]])]

\* ---------------------------------------------------- QualitativeChoiceLogic
Finite(k) == [inf |-> FALSE, n |-> k]

Inf == [inf |-> TRUE, n |-> 0]

\* the indexes of the tiers that are satisfiable with the object's integers
TrueLogics(rule, obj) ==
    {t \in 1..Len(rule.constraints) :
        solve(rule.constraints[t] \o return_test_integers(obj))}

Minimum(S) == CHOOSE x \in S : \A y \in S : x <= y

ConditionValue(rule, obj) ==
    /\ rule.condition # <<>>
    /\ solve(rule.condition[1] \o return_test_integers(obj))

\* QualitativeChoiceLogic.test that never looks at the condition
QualitativeTest_unconditional(rule, obj) ==
    LET true_logics == TrueLogics(rule, obj)
    IN  IF true_logics # {} THEN Finite(Minimum(true_logics)) ELSE Inf

\* QualitativeChoiceLogic.test
QualitativeTest(rule, obj) ==
    LET true_logics == TrueLogics(rule, obj)
    IN  IF ConditionValue(rule, obj)
        THEN (IF true_logics # {} THEN Finite(Minimum(true_logics)) ELSE Inf)
        ELSE IF rule.condition # <<>> THEN Inf
        ELSE (IF true_logics # {} THEN Finite(Minimum(true_logics)) ELSE Inf)

\* self.constraints and self.condition after test: logics, every formula and
\* test_condition are copies
LogicsAfterTest(rule, obj) == rule.constraints

ConditionAfterTest(rule, obj) == rule.condition

\* the rule after apply_qualitative_choice_logic tested it on the first r
\* feasible objects
RECURSIVE QualitativeRuleAfter(_, _, _)
QualitativeRuleAfter(rule, feasible, r) ==
    IF r = 0 THEN rule
    ELSE LET tested == QualitativeRuleAfter(rule, feasible, r - 1)
             obj == objects[feasible[r]]
         IN  [tested EXCEPT !.constraints = LogicsAfterTest(tested, obj),
                            !.condition = ConditionAfterTest(tested, obj)]

\* ------------------------------------------------------- PreferenceProblem
\* the finite number that stands for infinity in the stored degrees
InfinityStandIn == 10000

\* check_feasibility that matches models and objects variable by variable
\* without looking at the sign
check_feasibility_unsigned ==
    LET valid_objects == enum_models(constraints)
        IsValid(i) == \E m \in valid_objects :
                         /\ Len(m) = Len(objects[i].integers)
                         /\ \A v \in 1..Len(m) : Abs(m[v]) = Abs(objects[i].integers[v])
    IN  SelectSeq([i \in 1..Len(objects) |-> i], IsValid)

\* check_feasibility that enumerates the models of the base clauses only
check_feasibility_base ==
    LET valid_objects == enum_models(BaseConstraints)
        IsValid(i) == objects[i].integers \in valid_objects
    IN  SelectSeq([i \in 1..Len(objects) |-> i], IsValid)

\* check_feasibility: the positions of the objects whose integers are one of
\* the enumerated models, in object order
check_feasibility ==
    LET valid_objects == enum_models(constraints)
        IsValid(i) == objects[i].integers \in valid_objects
    IN  SelectSeq([i \in 1..Len(objects) |-> i], IsValid)

\* total_penalty of obj after the first i rules were tested on it
RECURSIVE TotalAfter(_, _)
TotalAfter(obj, i) ==
    IF i = 0 THEN obj.total_penalty
    ELSE TotalAfter(obj, i - 1) + PenaltyAdded(penalty_objects[i], obj)

\* apply_penalty_logic: the objects with their penalties added, and the rows
ScoredObjects(feasible) ==
    [i \in 1..Len(objects) |->
        IF i \in InRange(feasible)
        THEN [objects[i] EXCEPT !.total_penalty = TotalAfter(objects[i], Len(penalty_objects))]
        ELSE objects[i]]

PenaltyRows(feasible) ==
    [r \in 1..Len(feasible) |->
        LET obj == objects[feasible[r]]
        IN  <<obj.name>>
            \o [p \in 1..Len(penalty_objects) |-> PenaltyTest(penalty_objects[p], obj)]
            \o <<TotalAfter(obj, Len(penalty_objects))>>]

\* apply_qualitative_choice_logic: the rows, and the stored degree lists
QualitativeRows(feasible) ==
    [r \in 1..Len(feasible) |->
        LET obj == objects[feasible[r]]
        IN  <<obj.name>>
            \o [q \in 1..Len(qualitative_objects) |->
                   QualitativeTest(qualitative_objects[q], obj)]]

QualitativeValues(feasible) ==
    [r \in 1..Len(feasible) |->
        LET obj == objects[feasible[r]]
        IN  [key |-> obj.name,
             val |-> [q \in 1..Len(qualitative_objects) |->
                        LET value == QualitativeTest(qualitative_objects[q], obj)
                        IN  IF value.inf THEN InfinityStandIn ELSE value.n]]]

\* the per-index comparison both qualitative methods build
SatisfactionComparison(one, two) ==
    [index \in 1..Len(one) |->
        IF one[index] <= two[index] /\ one[index] < two[index] THEN 1
        ELSE IF one[index] >= two[index] /\ one[index] > two[index] THEN 2
        ELSE 0]

\* the degrees qualitative_exemplification finds for an object name
DegreesOf(name) ==
    IF \E r \in 1..Len(object_qualitative_values) : object_qualitative_values[r].key = name
    THEN object_qualitative_values[
            CHOOSE r \in 1..Len(object_qualitative_values) :
                object_qualitative_values[r].key = name].val
    ELSE <<>>

\* qualitative_exemplification that lets the first difference decide
QualitativeOutcome_first(one, two) ==
    LET satisfaction_comparison == SatisfactionComparison(DegreesOf(one), DegreesOf(two))
    IN  IF 1 \in InRange(satisfaction_comparison) THEN "one preferred"
        ELSE IF 2 \in InRange(satisfaction_comparison) THEN "two preferred"
        ELSE "equal"

\* what qualitative_exemplification prints for the sampled pair
QualitativeOutcome(one, two) ==
    LET satisfaction_comparison == SatisfactionComparison(DegreesOf(one), DegreesOf(two))
    IN  IF 1 \in InRange(satisfaction_comparison)
        THEN (IF 2 \in InRange(satisfaction_comparison) THEN "incomparable"
              ELSE "one preferred")
        ELSE IF 2 \in InRange(satisfaction_comparison)
        THEN (IF 1 \in InRange(satisfaction_comparison) THEN "incomparable"
              ELSE "two preferred")
        ELSE "equal"

\* what penalty_exemplification prints for the sampled pair
PenaltyOutcome(one, two) ==
    IF objects[one].total_penalty > objects[two].total_penalty THEN "two preferred"
    ELSE IF objects[two].total_penalty > objects[one].total_penalty THEN "one preferred"
    ELSE "equivalent"

\* is_optimal_qualitative_object that drops an object as soon as another
\* object is better on one rule
is_optimal_qualitative_object_strict(obj1) ==
    ~ \E r \in 1..Len(object_qualitative_values) :
        2 \in InRange(SatisfactionComparison(obj1, object_qualitative_values[r].val))


is_optimal_qualitative_object(obj1) ==
    ~ \E r \in 1..Len(object_qualitative_values) :
        LET satisfaction_comparison ==
                SatisfactionComparison(obj1, object_qualitative_values[r].val)
        IN  /\ 1 \notin InRange(satisfaction_comparison)
            /\ 2 \in InRange(satisfaction_comparison)

\* is_optimal_penalty_object without the branch that skips an equal penalty
is_optimal_penalty_object_unequal(obj1) ==
    ~ \E r \in 1..Len(feasible_objects) :
        LET obj2 == objects[feasible_objects[r]]
        IN  ~(obj1.total_penalty < obj2.total_penalty)

\* is_optimal_penalty_object with the comparison turned around
is_optimal_penalty_object_reversed(obj1) ==
    ~ \E r \in 1..Len(feasible_objects) :
        LET obj2 == objects[feasible_objects[r]]
        IN  /\ obj1.total_penalty # obj2.total_penalty
            /\ ~(obj1.total_penalty > obj2.total_penalty)


is_optimal_penalty_object(obj1) ==
    ~ \E r \in 1..Len(feasible_objects) :
        LET obj2 == objects[feasible_objects[r]]
        IN  /\ obj1.total_penalty # obj2.total_penalty
            /\ ~(obj1.total_penalty < obj2.total_penalty)

\* ------------------------------------------------- generated formula texts
Attributes(n) == SubSeq(LabelTable, 1, n)

Labels(n) == UNION {InRange(LabelTable[i]) : i \in 1..n}

RECURSIVE JoinWith(_, _)
JoinWith(parts, sep) ==
    IF Len(parts) = 1 THEN parts[1]
    ELSE parts[1] \o <<sep>> \o JoinWith(Tail(parts), sep)

\* the literal texts over the first n attributes: each label bare and negated
LiteralTexts(n) ==
    [k \in 1..(4 * n) |->
        LET pair == LabelTable[((k - 1) \div 4) + 1]
            form == (k - 1) % 4
        IN  IF form = 0 THEN <<pair[1]>>
            ELSE IF form = 1 THEN <<pair[2]>>
            ELSE IF form = 2 THEN <<"not", pair[1]>>
            ELSE <<"not", pair[2]>>]

\* the numbers of literals of the AND-parts of a text
Shapes == UNION {[1..c -> 1..MaxLits] : c \in 1..MaxClauses}

RECURSIVE Before(_, _)
Before(shape, i) == IF i = 1 THEN 0 ELSE Before(shape, i - 1) + shape[i - 1]

\* the text of the given shape whose p-th literal is the literal text
\* number offset + stride * (p - 1), counted round the literal texts
ShapedText(n, shape, offset, stride) ==
    JoinWith([i \in 1..Len(shape) |->
                JoinWith([j \in 1..shape[i] |->
                            LiteralTexts(n)[((offset + stride * (Before(shape, i) + j - 1))
                                             % (4 * n)) + 1]],
                         "OR")],
             "AND")

FormulaTexts(n) ==
    {ShapedText(n, shape, offset, stride) :
        shape \in Shapes, offset \in 0..(4 * n - 1), stride \in 0..(4 * n - 1)}

\* literal token groups of three words over the first n attributes
LongLiterals(n) ==
    {<<x, "not", y>> : x \in Labels(n), y \in Labels(n)}
        \cup {<<"not", "not", x>> : x \in Labels(n)}

\* texts with one literal of three words: alone, in an OR clause, and in an
\* AND-part of its own
MalformedTexts(n) ==
    LongLiterals(n)
        \cup {long \o <<"OR">> \o LiteralTexts(n)[k] : long \in LongLiterals(n), k \in {1, 4}}
        \cup {LiteralTexts(n)[k] \o <<"AND">> \o long : long \in LongLiterals(n), k \in {2}}

\* --------------------------------- specification of the formula compiler
NoProblem ==
    /\ constraints = <<>>
    /\ objects = <<>>
    /\ penalty_objects = <<>>
    /\ qualitative_objects = <<>>
    /\ feasible_objects = <<>>
    /\ object_qualitative_values = <<>>
    /\ penalty_logic_table = <<>>
    /\ qualitative_choice_table = <<>>
    /\ directory = <<>>
    /\ output = [kind |-> "none", body |-> <<>>]

InitCompile ==
    /\ pc = "compile"
    /\ error = "none"
    /\ \E n \in 1..MaxAttrs :
        /\ attributes = Attributes(n)
        /\ values = RegisterValues(Attributes(n), n)
        /\ line \in FormulaTexts(n)
    /\ result = <<>>
    /\ NoProblem

Compile ==
    /\ pc = "compile"
    /\ LET r == make_constraints(line)
       IN  /\ result' = r.clause_list
           /\ error' = r.err
    /\ pc' = "compiled"
    /\ UNCHANGED <<attributes, values, constraints, objects, penalty_objects,
                   qualitative_objects, feasible_objects, object_qualitative_values,
                   penalty_logic_table, qualitative_choice_table, directory, line, output>>

NextCompile == Compile

SpecCompile == InitCompile /\ [][NextCompile]_vars

\* the compiler on texts with a literal of three words
InitMalformed ==
    /\ pc = "compile"
    /\ error = "none"
    /\ \E n \in 1..MaxAttrs :
        /\ attributes = Attributes(n)
        /\ values = RegisterValues(Attributes(n), n)
        /\ line \in MalformedTexts(n)
    /\ result = <<>>
    /\ NoProblem

SpecMalformed == InitMalformed /\ [][NextCompile]_vars

\* The clause list the DSL text denotes: one clause per AND-part, in order,
\* holding the integers of its OR-parts, in order.
SplitOrder(text) ==
    LET parts == Split(text, "AND")
    IN  [i \in 1..Len(parts) |->
            LET lits == Split(parts[i], "OR")
            IN  [j \in 1..Len(lits) |-> LiteralInteger(lits[j])]]

\* C1: make_constraints returns exactly one clause per AND-part of the text,
\* in AND-split order, each holding the literals of that part in OR-split
\* order, for every mixture of one-literal and many-literal clauses.
C1_SplitOrderPreserved == pc = "compiled" => (error = "none" /\ result = SplitOrder(line))

\* C2: every clause of a formula returned by make_constraints for a
\* well-formed text over registered labels is non-empty.
C2_NoEmptyClause ==
    pc = "compiled" => (error = "none" /\ \A k \in 1..Len(result) : result[k] # <<>>)

\* ------------------------------------------------------- the input files
AttributeLine(i) == <<"A", ":", LabelTable[i][1], ",", LabelTable[i][2]>>

AttributeFiles == {[i \in 1..n |-> AttributeLine(i)] : n \in 0..MaxAttrs}

\* the words of a line that are neither operators nor penalties name labels
Operators == {"AND", "OR", "BT", "IF", ",", "not", "0", "1", "2", "3", "4", "5"}

OverLabels(text, n) == InRange(text) \ Operators \subseteq Labels(n)

HardLines ==
    << <<"t1">>,
       <<"not", "t2">>,
       <<"t1", "OR", "t2">>,
       <<"f1", "AND", "t2">>,
       <<"t1", "OR", "f2", "AND", "t2">>,
       <<"t3", "OR", "f1">> >>

PenaltyLines ==
    << <<"t1", ",", "5">>,
       <<"f2", ",", "3">>,
       <<"t1", "OR", "t2", ",", "2">>,
       <<"f1", "AND", "t2", ",", "3">>,
       <<"f1", "OR", "t2", "AND", "t1", ",", "1">>,
       <<"not", "t3", ",", "4">> >>

QualitativeLines ==
    << <<"t1", "BT", "t2", "BT", "f1", "IF">>,
       <<"f1", "BT", "t2", "BT", "t1", "IF">>,
       <<"t1", "BT", "f1", "IF", "t2">>,
       <<"f1", "OR", "f2", "BT", "t1", "AND", "t2", "IF", "not", "t1">>,
       <<"t2", "BT", "t1">>,
       <<"f3", "BT", "t1", "IF">> >>

\* the files of at most max lines that take lines of the pool, in pool
\* order, and name labels of the first n attributes only
RECURSIVE Pick(_, _)
Pick(pool, S) ==
    IF S = {} THEN <<>>
    ELSE LET i == CHOOSE k \in S : \A j \in S : k <= j
         IN  <<pool[i]>> \o Pick(pool, S \ {i})

FilesFrom(pool, n, max) ==
    {Pick(pool, S) : S \in {T \in SUBSET {i \in 1..Len(pool) : OverLabels(pool[i], n)} :
                                Cardinality(T) <= max}}

\* the directories with at most the given numbers of lines in the
\* constraints, penalty logic and qualitative choice logic files
Directories(hard, penalty, qualitative) ==
    UNION {[attributes : {[i \in 1..n |-> AttributeLine(i)]},
            constraints : FilesFrom(HardLines, n, hard),
            penalty : FilesFrom(PenaltyLines, n, penalty),
            qualitative : FilesFrom(QualitativeLines, n, qualitative)] : n \in 0..MaxAttrs}

\* ------------------------------------------------------------- the program
\* new_preference_problem has asked for the directory and the file names
Started ==
    /\ pc = "read_attributes"
    /\ error = "none"
    /\ attributes = <<>>
    /\ values = <<>>
    /\ constraints = <<>>
    /\ objects = <<>>
    /\ penalty_objects = <<>>
    /\ qualitative_objects = <<>>
    /\ feasible_objects = <<>>
    /\ object_qualitative_values = <<>>
    /\ penalty_logic_table = <<>>
    /\ qualitative_choice_table = <<>>
    /\ line = <<>>
    /\ result = <<>>
    /\ output = [kind |-> "none", body |-> <<>>]

\* problems with penalty rules and no qualitative rule
InitPenalty ==
    /\ directory \in Directories(MaxHardLines, MaxPenaltyRules, 0)
    /\ Started

\* problems with qualitative rules and no penalty rule
InitQualitative ==
    /\ directory \in Directories(MaxHardLines, 0, MaxQualRules)
    /\ Started

\* problems with at most one penalty rule and one qualitative rule
InitMixed ==
    /\ directory \in Directories(MaxHardLines, 1, 1)
    /\ Started

\* the attribute lines "A: x, y" over the labels of the first n attributes
AttributeLinesOver(n) == {<<"A", ":", x, ",", y>> : x \in Labels(n), y \in Labels(n)}

\* attribute files whose i-th line takes its two labels, in any order and
\* with repetition, from the labels of the first i lines of the label table
RepeatingAttributeFiles ==
    UNION {{f \in [1..n -> AttributeLinesOver(n)] :
              \A i \in 1..n : {f[i][3], f[i][5]} \subseteq Labels(i)} : n \in 1..MaxAttrs}

\* problems without constraints and rules, over attribute files that may
\* repeat a label
InitRegister ==
    /\ directory \in [attributes : RepeatingAttributeFiles, constraints : {<<>>},
                      penalty : {<<>>}, qualitative : {<<>>}]
    /\ Started

\* problems whose constraints file is one generated formula text, without rules
InitMonotone ==
    /\ directory \in UNION {[attributes : {[i \in 1..n |-> AttributeLine(i)]},
                             constraints : {<<H>> : H \in FormulaTexts(n)},
                             penalty : {<<>>},
                             qualitative : {<<>>}] : n \in 1..MaxAttrs}
    /\ Started

\* problems with at most one hard-constraint line and one penalty rule
InitOptimal ==
    /\ directory \in Directories(1, 1, MaxQualRules)
    /\ Started

\* the step after a step that ended with err: an exception ends the program
\* where it is
After(err, next) == IF err = "none" THEN next ELSE pc

ReadAttributes ==
    /\ pc = "read_attributes" /\ error = "none"
    /\ LET r == read_attributes(directory.attributes)
       IN  /\ attributes' = r.attributes
           /\ values' = RegisterValues(r.attributes, Len(r.attributes))
           /\ error' = r.err
           /\ pc' = After(r.err, "read_constraints")
    /\ UNCHANGED <<constraints, objects, penalty_objects, qualitative_objects,
                   feasible_objects, object_qualitative_values, penalty_logic_table,
                   qualitative_choice_table, directory, line, result, output>>

ReadConstraints ==
    /\ pc = "read_constraints" /\ error = "none"
    /\ LET r == read_constraints(directory.constraints)
       IN  /\ constraints' = r.clause_list
           /\ error' = r.err
           /\ pc' = After(r.err, "make_objects")
    /\ UNCHANGED <<attributes, values, objects, penalty_objects, qualitative_objects,
                   feasible_objects, object_qualitative_values, penalty_logic_table,
                   qualitative_choice_table, directory, line, result, output>>

MakeObjects ==
    /\ pc = "make_objects" /\ error = "none"
    /\ LET r == make_objects
       IN  /\ objects' = r.objects
           /\ error' = r.err
           /\ pc' = After(r.err, "read_penalty_logic")
    /\ UNCHANGED <<attributes, values, constraints, penalty_objects, qualitative_objects,
                   feasible_objects, object_qualitative_values, penalty_logic_table,
                   qualitative_choice_table, directory, line, result, output>>

ReadPenaltyLogic ==
    /\ pc = "read_penalty_logic" /\ error = "none"
    /\ LET r == read_penalty_logic(directory.penalty)
       IN  /\ penalty_objects' = r.rules
           /\ error' = r.err
           /\ pc' = After(r.err, "read_qualitative_logic")
    /\ UNCHANGED <<attributes, values, constraints, objects, qualitative_objects,
                   feasible_objects, object_qualitative_values, penalty_logic_table,
                   qualitative_choice_table, directory, line, result, output>>

ReadQualitativeLogic ==
    /\ pc = "read_qualitative_logic" /\ error = "none"
    /\ LET r == read_qualitative_logic(directory.qualitative)
       IN  /\ qualitative_objects' = r.rules
           /\ error' = r.err
           /\ pc' = After(r.err, "construct")
    /\ UNCHANGED <<attributes, values, constraints, objects, penalty_objects,
                   feasible_objects, object_qualitative_values, penalty_logic_table,
                   qualitative_choice_table, directory, line, result, output>>

\* PreferenceProblem.__init__: check_feasibility, apply_penalty_logic and
\* apply_qualitative_choice_logic
Construct ==
    /\ pc = "construct" /\ error = "none"
    /\ LET feasible == check_feasibility
       IN  /\ feasible_objects' = feasible
           /\ objects' = ScoredObjects(feasible)
           /\ penalty_logic_table' = PenaltyRows(feasible)
           /\ qualitative_choice_table' = QualitativeRows(feasible)
           /\ object_qualitative_values' = QualitativeValues(feasible)
           /\ penalty_objects' =
                 [p \in 1..Len(penalty_objects) |->
                     PenaltyRuleAfter(penalty_objects[p], feasible, Len(feasible))]
           /\ qualitative_objects' =
                 [q \in 1..Len(qualitative_objects) |->
                     QualitativeRuleAfter(qualitative_objects[q], feasible, Len(feasible))]
    /\ pc' = "menu"
    /\ UNCHANGED <<error, attributes, values, constraints, directory, line, result, output>>

\* what the reporting operations leave alone
Frame == UNCHANGED <<attributes, values, constraints, objects, penalty_objects,
                     qualitative_objects, feasible_objects, object_qualitative_values,
                     penalty_logic_table, qualitative_choice_table, directory, line, result>>

Encoding ==
    /\ pc = "menu" /\ error = "none"
    /\ output' = [kind |-> "encoding",
                  body |-> [i \in 1..Len(objects) |-> <<objects[i].name, objects[i].values>>]]
    /\ UNCHANGED <<pc, error>>
    /\ Frame

ReturnFeasibility ==
    /\ pc = "menu" /\ error = "none"
    /\ output' = [kind |-> "feasibility",
                  body |-> IF feasible_objects # <<>> THEN <<Len(feasible_objects)>> ELSE <<>>]
    /\ UNCHANGED <<pc, error>>
    /\ Frame

PrintPenaltyTable ==
    /\ pc = "menu" /\ error = "none"
    /\ output' = [kind |-> "penalty table", body |-> penalty_logic_table]
    /\ UNCHANGED <<pc, error>>
    /\ Frame

PrintQualitativeTable ==
    /\ pc = "menu" /\ error = "none"
    /\ output' = [kind |-> "qualitative table", body |-> qualitative_choice_table]
    /\ UNCHANGED <<pc, error>>
    /\ Frame

\* random.sample(self.feasible_objects, 2): the ordered pairs of two different
\* positions of the list; it raises ValueError when there are fewer than two
Samples == {p \in (1..Len(feasible_objects)) \X (1..Len(feasible_objects)) : p[1] # p[2]}

PenaltyExemplification ==
    /\ pc = "menu" /\ error = "none"
    /\ IF Len(feasible_objects) < 2
       THEN /\ error' = "ValueError"
            /\ UNCHANGED <<pc, output>>
       ELSE /\ \E p \in Samples :
                LET object_one == feasible_objects[p[1]]
                    object_two == feasible_objects[p[2]]
                IN  output' = [kind |-> "penalty exemplification",
                               body |-> <<objects[object_one].name, objects[object_two].name,
                                          PenaltyOutcome(object_one, object_two)>>]
            /\ UNCHANGED <<pc, error>>
    /\ Frame

QualitativeExemplification ==
    /\ pc = "menu" /\ error = "none"
    /\ IF Len(feasible_objects) < 2
       THEN /\ error' = "ValueError"
            /\ UNCHANGED <<pc, output>>
       ELSE /\ \E p \in Samples :
                LET object_one == objects[feasible_objects[p[1]]]
                    object_two == objects[feasible_objects[p[2]]]
                IN  output' = [kind |-> "qualitative exemplification",
                               body |-> <<object_one.name, object_two.name,
                                          QualitativeOutcome(object_one.name, object_two.name)>>]
            /\ UNCHANGED <<pc, error>>
    /\ Frame

\* the names penalty_omni_optimization prints, in the order of the feasible list
PenaltyOptimal ==
    LET optimal(r) == is_optimal_penalty_object(objects[r])
        chosen == SelectSeq(feasible_objects, optimal)
    IN  [k \in 1..Len(chosen) |-> objects[chosen[k]].name]

PenaltyOmniOptimization ==
    /\ pc = "menu" /\ error = "none"
    /\ output' = [kind |-> "penalty optimal", body |-> PenaltyOptimal]
    /\ UNCHANGED <<pc, error>>
    /\ Frame

\* the keys qualitative_omni_optimization prints, in key order
QualitativeOptimal ==
    LET optimal(entry) == is_optimal_qualitative_object(entry.val)
        chosen == SelectSeq(object_qualitative_values, optimal)
    IN  [k \in 1..Len(chosen) |-> chosen[k].key]

QualitativeOmniOptimization ==
    /\ pc = "menu" /\ error = "none"
    /\ output' = [kind |-> "qualitative optimal", body |-> QualitativeOptimal]
    /\ UNCHANGED <<pc, error>>
    /\ Frame

\* choice 3 of the home screen prints "Bye!" and ends the loop
Exit ==
    /\ pc = "menu" /\ error = "none"
    /\ pc' = "exit"
    /\ output' = [kind |-> "bye", body |-> <<>>]
    /\ UNCHANGED error
    /\ Frame

Next ==
    \/ ReadAttributes
    \/ ReadConstraints
    \/ MakeObjects
    \/ ReadPenaltyLogic
    \/ ReadQualitativeLogic
    \/ Construct
    \/ Encoding
    \/ ReturnFeasibility
    \/ PrintPenaltyTable
    \/ PrintQualitativeTable
    \/ PenaltyExemplification
    \/ QualitativeExemplification
    \/ PenaltyOmniOptimization
    \/ QualitativeOmniOptimization
    \/ Exit

SpecPenalty == InitPenalty /\ [][Next]_vars

SpecQualitative == InitQualitative /\ [][Next]_vars

SpecMixed == InitMixed /\ [][Next]_vars

SpecRegister == InitRegister /\ [][Next]_vars

SpecOptimal == InitOptimal /\ [][Next]_vars

\* the texts made of some, not all and not none, of the AND-parts of H, in
\* their order
Weakened(H) ==
    LET parts == Split(H, "AND")
    IN  {JoinWith(Pick(parts, kept), "AND") :
            kept \in (SUBSET (1..Len(parts))) \ {{}, 1..Len(parts)}}

\* a second run of main on the same directory after AND-parts were removed
\* from the hard-constraints line; result keeps the integers of the objects
\* that were feasible in the first run
Rerun ==
    /\ pc = "menu" /\ error = "none" /\ result = <<>>
    /\ \E weaker \in Weakened(directory.constraints[1]) :
          directory' = [directory EXCEPT !.constraints = <<weaker>>]
    /\ result' = <<[r \in 1..Len(feasible_objects) |-> objects[feasible_objects[r]].integers]>>
    /\ pc' = "read_attributes"
    /\ attributes' = <<>>
    /\ values' = <<>>
    /\ constraints' = <<>>
    /\ objects' = <<>>
    /\ penalty_objects' = <<>>
    /\ qualitative_objects' = <<>>
    /\ feasible_objects' = <<>>
    /\ object_qualitative_values' = <<>>
    /\ penalty_logic_table' = <<>>
    /\ qualitative_choice_table' = <<>>
    /\ UNCHANGED <<error, line, output>>

NextMonotone ==
    \/ ReadAttributes
    \/ ReadConstraints
    \/ MakeObjects
    \/ ReadPenaltyLogic
    \/ ReadQualitativeLogic
    \/ Construct
    \/ Rerun

SpecMonotone == InitMonotone /\ [][NextMonotone]_vars

\* ------------------------------------------------------------- properties
\* PreferenceProblem.__init__ has returned
Constructed == pc \in {"menu", "exit"}

\* the object's assignment makes every clause of the formula true
Holds(formula, obj) ==
    \A k \in 1..Len(formula) : InRange(formula[k]) \cap InRange(obj.integers) # {}

Feasible == {objects[feasible_objects[r]] : r \in 1..Len(feasible_objects)}

\* C3: after construction the feasible objects are exactly the generated
\* objects whose integers are a model of the hard constraints (the compiled
\* clauses and the base clauses), that is the objects whose assignment makes
\* every hard-constraint clause true; each of them is listed once.
C3_FeasibleIffModel ==
    Constructed =>
        /\ \A i \in 1..Len(objects) :
              /\ i \in InRange(feasible_objects) <=> Holds(constraints, objects[i])
              /\ i \in InRange(feasible_objects) <=>
                    \E m \in [1..Len(attributes) -> BOOLEAN] :
                        /\ Satisfies(m, constraints)
                        /\ objects[i].integers =
                              [v \in 1..Len(attributes) |-> IF m[v] THEN v ELSE -v]
        /\ \A r, q \in 1..Len(feasible_objects) :
              feasible_objects[r] = feasible_objects[q] => r = q

\* a compiled hard constraint splits the objects into feasible and infeasible
C3_Witness ==
    /\ Constructed
    /\ Len(constraints) > Len(attributes)
    /\ feasible_objects # <<>>
    /\ \E i \in 1..Len(objects) : i \notin InRange(feasible_objects)

\* the sum of the penalties of the first i rules the object does not satisfy
RECURSIVE PenaltySum(_, _)
PenaltySum(obj, i) ==
    IF i = 0 THEN 0
    ELSE PenaltySum(obj, i - 1)
         + (IF Holds(penalty_objects[i].constraint, obj) THEN 0
            ELSE IntOf(penalty_objects[i].penalty))

\* C5: after construction the total_penalty of every feasible object is the
\* sum, over all penalty rules, of 0 when the object's assignment satisfies
\* the rule's compiled formula and of the rule's penalty otherwise; the
\* penalty table has one cell per rule and feasible object, holding that
\* applied penalty.
C5_TotalPenaltyIsSum ==
    Constructed =>
        /\ \A obj \in Feasible : obj.total_penalty = PenaltySum(obj, Len(penalty_objects))
        /\ Len(penalty_logic_table) = Len(feasible_objects)
        /\ \A r \in 1..Len(feasible_objects) :
              LET obj == objects[feasible_objects[r]]
                  row == penalty_logic_table[r]
              IN  /\ Len(row) = Len(penalty_objects) + 2
                  /\ row[Len(row)] = obj.total_penalty
                  /\ \A p \in 1..Len(penalty_objects) :
                        IF Holds(penalty_objects[p].constraint, obj)
                        THEN row[p + 1] = 0
                        ELSE row[p + 1] = penalty_objects[p].penalty

\* a feasible object satisfies one of two rules and pays for the other
C5_Witness ==
    /\ Constructed
    /\ Len(penalty_objects) = 2
    /\ \E obj \in Feasible :
          /\ Holds(penalty_objects[1].constraint, obj)
          /\ ~Holds(penalty_objects[2].constraint, obj)
          /\ obj.total_penalty = IntOf(penalty_objects[2].penalty)
          /\ obj.total_penalty > 0

\* the degree the rule gives the object, read off the object's assignment
Degree(rule, obj) ==
    LET tiers == {t \in 1..Len(rule.constraints) : Holds(rule.constraints[t], obj)}
    IN  IF rule.condition # <<>> /\ ~Holds(rule.condition[1], obj) THEN Inf
        ELSE IF tiers = {} THEN Inf
        ELSE Finite(CHOOSE t \in tiers : \A u \in tiers : t <= u)

\* C6: for every qualitative rule and every object, test returns the least
\* index of a tier the object satisfies, or infinity when it satisfies none,
\* if the rule has no condition or its condition holds; and infinity if the
\* rule has a condition that does not hold, whichever tiers are satisfied.
C6_SatisfactionDegree ==
    Constructed =>
        /\ \A q \in 1..Len(qualitative_objects) : \A i \in 1..Len(objects) :
              QualitativeTest(qualitative_objects[q], objects[i])
                  = Degree(qualitative_objects[q], objects[i])
        /\ \A r \in 1..Len(feasible_objects) : \A q \in 1..Len(qualitative_objects) :
              qualitative_choice_table[r][q + 1]
                  = Degree(qualitative_objects[q], objects[feasible_objects[r]])

\* the table holds infinity for an object that satisfies a tier of a rule
\* whose condition fails, and a degree 2 for another rule or object
C6_Witness ==
    /\ Constructed
    /\ \E r \in 1..Len(feasible_objects) : \E q \in 1..Len(qualitative_objects) :
          /\ qualitative_objects[q].condition # <<>>
          /\ ~Holds(qualitative_objects[q].condition[1], objects[feasible_objects[r]])
          /\ Holds(qualitative_objects[q].constraints[1], objects[feasible_objects[r]])
          /\ qualitative_choice_table[r][q + 1] = Inf
    /\ \E r \in 1..Len(feasible_objects) : \E q \in 1..Len(qualitative_objects) :
          qualitative_choice_table[r][q + 1] = Finite(2)

\* C1 and C2 are stated with the formula compiler, above.

\* C4: for every attribute count N >= 0, N = 0 included, make_objects
\* produces exactly 2^N objects with pairwise distinct bitstrings and
\* pairwise distinct literal vectors.
C4_TwoToTheNObjects ==
    (pc \notin {"read_attributes", "read_constraints"}
        /\ (pc = "make_objects" => error # "none")) =>
        /\ Len(objects) = Pow2(Len(attributes))
        /\ \A i, j \in 1..Len(objects) :
              i # j => /\ objects[i].encoding # objects[j].encoding
                       /\ objects[i].integers # objects[j].integers

\* C7: a qualitative rule line may leave out the IF clause: a line without
\* any IF is read into a rule without condition whose tiers are the compiled
\* BT-parts in order, and a line with "IF condition" into the same tiers
\* and the compiled condition.
C7_IfClauseOptional ==
    (pc \in {"construct", "menu", "exit"}
        \/ (pc = "read_qualitative_logic" /\ error # "none")) =>
        /\ Len(qualitative_objects) = Len(directory.qualitative)
        /\ \A i \in 1..Len(qualitative_objects) :
              LET parts == Split(directory.qualitative[i], "IF")
                  tiers == Split(parts[1], "BT")
              IN  /\ qualitative_objects[i].constraints
                        = [t \in 1..Len(tiers) |-> make_constraints(tiers[t]).clause_list]
                  /\ qualitative_objects[i].condition
                        = IF Len(parts) = 1 \/ parts[2] = <<>> THEN <<>>
                          ELSE <<make_constraints(parts[2]).clause_list>>

\* x is a better degree than y; infinity is worse than every tier
Better(x, y) == ~x.inf /\ (y.inf \/ x.n < y.n)

ObjectNamed(name) == objects[CHOOSE i \in 1..Len(objects) : objects[i].name = name]

DegreeVector(obj) ==
    [q \in 1..Len(qualitative_objects) |-> Degree(qualitative_objects[q], obj)]

Favours(one, two) ==
    \E q \in 1..Len(qualitative_objects) : Better(DegreeVector(one)[q], DegreeVector(two)[q])

Dominates(one, two) == Favours(one, two) /\ ~Favours(two, one)

\* C8: the qualitative comparison of two feasible objects A and B reports A
\* strictly preferred iff some rule favours A and none favours B, B strictly
\* preferred in the symmetric case, incomparable iff some rule favours A and
\* another favours B, and equal iff no degree differs; it reports exactly
\* one of the four.
C8_PairwiseOutcome ==
    output.kind = "qualitative exemplification" =>
        LET A == ObjectNamed(output.body[1])
            B == ObjectNamed(output.body[2])
        IN  /\ A \in Feasible /\ B \in Feasible /\ A # B
            /\ output.body[3] \in {"one preferred", "two preferred", "incomparable", "equal"}
            /\ output.body[3] = "one preferred" <=> Dominates(A, B)
            /\ output.body[3] = "two preferred" <=> Dominates(B, A)
            /\ output.body[3] = "incomparable" <=> (Favours(A, B) /\ Favours(B, A))
            /\ output.body[3] = "equal" <=> DegreeVector(A) = DegreeVector(B)

\* the degree vectors [1,3] and [3,1] are reported incomparable
C8_Witness ==
    /\ output.kind = "qualitative exemplification"
    /\ output.body[3] = "incomparable"
    /\ DegreeVector(ObjectNamed(output.body[1])) = <<Finite(1), Finite(3)>>
    /\ DegreeVector(ObjectNamed(output.body[2])) = <<Finite(3), Finite(1)>>

\* C9: qualitative_omni_optimization reports a feasible object iff no other
\* feasible object strictly dominates it on the degree vectors, infinity
\* being worse than every tier; objects that are only equal to or
\* incomparable with others are reported.
C9_QualitativeOptimal ==
    output.kind = "qualitative optimal" =>
        /\ InRange(output.body) =
              {obj.name : obj \in {o \in Feasible : ~ \E other \in Feasible : Dominates(other, o)}}
        /\ \A k, l \in 1..Len(output.body) : output.body[k] = output.body[l] => k = l

\* two incomparable objects are both reported, and an object with an
\* infinite degree is left out because of an object with a finite one
C9_Witness ==
    /\ output.kind = "qualitative optimal"
    /\ \E a, b \in InRange(output.body) :
          Favours(ObjectNamed(a), ObjectNamed(b)) /\ Favours(ObjectNamed(b), ObjectNamed(a))
    /\ \E c \in Feasible : \E d \in Feasible :
          /\ c.name \notin InRange(output.body)
          /\ Dominates(d, c)
          /\ \E q \in 1..Len(qualitative_objects) :
                DegreeVector(c)[q].inf /\ ~DegreeVector(d)[q].inf

\* C10: penalty_omni_optimization reports a feasible object iff no feasible
\* object has a strictly lower total_penalty: every object tied at the
\* minimum is reported and no object above it.
C10_PenaltyOptimal ==
    output.kind = "penalty optimal" =>
        /\ InRange(output.body) =
              {obj.name : obj \in {o \in Feasible :
                  \A other \in Feasible : ~(other.total_penalty < o.total_penalty)}}
        /\ \A k, l \in 1..Len(output.body) : output.body[k] = output.body[l] => k = l

\* two objects tied at the least penalty are reported, a third is not
C10_Witness ==
    /\ output.kind = "penalty optimal"
    /\ Len(output.body) >= 2
    /\ \E c \in Feasible :
          /\ c.name \notin InRange(output.body)
          /\ c.total_penalty > ObjectNamed(output.body[1]).total_penalty

\* C11: when fewer than two feasible objects exist, asking for an
\* exemplification ends in a message for the user and not in a crash, and
\* the menu loop can go on.
C11_EmptySampleReported ==
    (pc = "menu" /\ Len(feasible_objects) < 2) => error = "none"

\* no assignment of the attributes makes every hard-constraint clause true
Unsatisfiable ==
    ~ \E m \in [1..Len(attributes) -> BOOLEAN] : Satisfies(m, constraints)

\* the reports that list objects
ObjectReports ==
    {"feasibility", "penalty table", "qualitative table",
     "penalty optimal", "qualitative optimal"}

\* C12: when the hard constraints are unsatisfiable, construction completes
\* with an empty feasible set, and the feasibility report, both tables and
\* both optimal-set reports complete and contain no object; the only request
\* that fails is a sample of two feasible objects.
C12_UnsatisfiableIsEmpty ==
    (pc \in {"construct", "menu", "exit"} /\ Unsatisfiable) =>
        /\ pc = "construct" => error = "none"
        /\ error \in {"none", "ValueError"}
        /\ feasible_objects = <<>>
        /\ penalty_logic_table = <<>>
        /\ qualitative_choice_table = <<>>
        /\ object_qualitative_values = <<>>
        /\ output.kind \in ObjectReports => output.body = <<>>

\* clauses that contradict each other, none of them empty, and an
\* optimal-set report that was printed
C12_Witness ==
    /\ Constructed
    /\ Unsatisfiable
    /\ \A k \in 1..Len(constraints) : constraints[k] # <<>>
    /\ penalty_objects # <<>>
    /\ qualitative_objects # <<>>
    /\ output.kind = "qualitative optimal"
    /\ output.body = <<>>

\* the text has a literal token group of more than two words
HasLongLiteral(text) ==
    \E i \in 1..Len(Split(text, "AND")) :
        \E j \in 1..Len(Split(Split(text, "AND")[i], "OR")) :
            Len(Words(Split(Split(text, "AND")[i], "OR")[j])) > 2

\* C13: compiling a formula with a literal token group of more than two
\* words fails, and yields no compiled clause.
C13_LongLiteralRejected ==
    (pc = "compiled" /\ HasLongLiteral(line)) => (error # "none" /\ result = <<>>)

\* C14: after read_attributes succeeds every label belongs to exactly one
\* attribute, the two labels of an attribute differ, and the registered bit
\* of a label is the one its attribute gave it (1 for the first label, 0 for
\* the second); a file that repeats a label is rejected.
C14_LabelsUnique ==
    (pc # "read_attributes" /\ error = "none") =>
        /\ \A i \in 1..Len(attributes) :
              /\ attributes[i][1] # attributes[i][2]
              /\ values[attributes[i][1]] = 1
              /\ values[attributes[i][2]] = 0
        /\ \A i, j \in 1..Len(attributes) :
              i # j => InRange(attributes[i]) \cap InRange(attributes[j]) = {}

\* the literal the sign rule gives a one-word or two-word literal text: the
\* label is the last word, its attribute index i is the attribute that lists
\* it, its bit is 1 when it is the attribute's first label; the bare label is
\* +i for bit 1 and -i for bit 0, and the negated form has the opposite sign
SignRule(literal) ==
    LET X == literal[Len(literal)]
        i == CHOOSE k \in 1..Len(attributes) : X \in InRange(attributes[k])
        bare == IF X = attributes[i][1] THEN i ELSE -i
    IN  IF Len(literal) = 1 THEN bare ELSE -bare

\* the literal texts of a formula text, over all its AND-parts
LiteralsOf(text) ==
    UNION {InRange(Split(part, "OR")) : part \in InRange(Split(text, "AND"))}

\* C15: compiling a text of one AND-part, a single literal or an OR clause,
\* yields one clause that holds, in order, the sign-rule integer of each
\* literal: +i for a bare label with bit 1, -i for a bare label with bit 0,
\* and the opposite sign for the negated form.  In a text of several
\* AND-parts every compiled integer is the sign-rule integer of a literal of
\* the text.
C15_SignRule ==
    (pc = "compiled" /\ error = "none") =>
        /\ Len(Split(line, "AND")) = 1 =>
              result = <<[j \in 1..Len(Split(line, "OR")) |->
                            SignRule(Split(line, "OR")[j])]>>
        /\ \A k \in 1..Len(result) : \A j \in 1..Len(result[k]) :
              \E literal \in LiteralsOf(line) : result[k][j] = SignRule(literal)

\* an OR clause of a negated first label and a bare second label of the
\* same attribute was compiled
C15_Witness ==
    /\ pc = "compiled"
    /\ error = "none"
    /\ Len(Split(line, "AND")) = 1
    /\ Len(Split(line, "OR")) = 2
    /\ Len(Split(line, "OR")[1]) = 2
    /\ Len(Split(line, "OR")[2]) = 1
    /\ result = <<<<-1, -1>>>>

\* C16: the reporting operations leave the object list with its totals, the
\* feasible set, the cached degree vectors and the compiled clauses of the
\* hard constraints and of every rule unchanged, and the scoring of the
\* construction pass leaves the compiled clauses unchanged.
C16_ReportsFrame ==
    [][/\ pc = "menu" =>
            UNCHANGED <<objects, feasible_objects, object_qualitative_values,
                        constraints, penalty_objects, qualitative_objects>>
       /\ pc = "construct" =>
            UNCHANGED <<constraints, penalty_objects, qualitative_objects>>]_vars

\* a report was printed for a problem with a rule of each kind that was
\* tested on several feasible objects and penalised one of them
C16_Witness ==
    /\ pc = "menu"
    /\ output.kind = "penalty exemplification"
    /\ penalty_objects # <<>>
    /\ qualitative_objects # <<>>
    /\ Len(feasible_objects) >= 2
    /\ \E r \in 1..Len(feasible_objects) : objects[feasible_objects[r]].total_penalty > 0

\* C17: when AND-parts are removed from the hard-constraints text and the
\* program is run again on the same attributes, every object that was
\* feasible before is feasible again.
C17_WeakeningKeepsFeasible ==
    (Constructed /\ Len(result) = 1) =>
        \A k \in 1..Len(result[1]) :
            \E r \in 1..Len(feasible_objects) :
                objects[feasible_objects[r]].integers = result[1][k]

\* C18: whenever the feasible set is non-empty, penalty_omni_optimization
\* and qualitative_omni_optimization each find at least one object, also
\* when there is no penalty rule or no qualitative rule; the reports print
\* what they find.
C18_OptimalNonEmpty ==
    (Constructed /\ feasible_objects # <<>>) =>
        /\ PenaltyOptimal # <<>>
        /\ QualitativeOptimal # <<>>
        /\ output.kind \in {"penalty optimal", "qualitative optimal"} => output.body # <<>>

\* the qualitative report left out a dominated object and kept two that are
\* incomparable, in a problem whose penalty rule penalised an object
C18_Witness ==
    /\ output.kind = "qualitative optimal"
    /\ output.body # <<>>
    /\ Len(output.body) < Len(feasible_objects)
    /\ \E a, b \in InRange(output.body) :
          Favours(ObjectNamed(a), ObjectNamed(b)) /\ Favours(ObjectNamed(b), ObjectNamed(a))
    /\ Len(PenaltyOptimal) < Len(feasible_objects)

====
